---- MODULE Spec2Model ----
(***************************************************************************)
(* A model of afdata/pattern_mining.py: support and confidence over an     *)
(* itemset-corpus, the Apriori miner, the gapless subsequence matcher, the *)
(* sequence support counter, the candidate join, the length-1 sequence     *)
(* miner and the prefix-projected sequence miner.                          *)
(*                                                                         *)
(* Python values are modelled as follows.                                  *)
(*   frozenset / set        a TLA+ set                                     *)
(*   list / tuple           a TLA+ sequence (index i in Python is i+1)     *)
(*   dict                   [keys |-> insertion-ordered keys, at |-> map]  *)
(*   count / total (float)  the exact fraction <<count, total>>            *)
(*   a call's outcome       [raised |-> "none", value |-> v] when it       *)
(*                          returns v, [raised |-> "SomeError"] when it    *)
(*                          raises                                         *)
(***************************************************************************)
EXTENDS Integers, Sequences, FiniteSets, TLC

VARIABLES
    transactions,                \* the corpus the current call works on
    call,                        \* the call being made: its name and arguments
    ret,                         \* the outcome of the last finished call
    pc,                          \* "idle" before the call, "returned" after it,
                                 \* or the position inside a multi-step call
    k,                           \* get_frequent_itemsets: local k
    length_k_frequent_itemsets,  \* get_frequent_itemsets: local
    frequent_itemsets,           \* get_frequent_itemsets: local
    supports,                    \* get_frequent_itemsets: local
    stack                        \* get_frequent_sequences_2: the call stack

vars == <<transactions, call, ret, pc, k, length_k_frequent_itemsets,
          frequent_itemsets, supports, stack>>

----------------------------------------------------------------------------
(* Bounds of the model and the input domains they span. *)

Items == {"a", "b", "c"}
Itemsets == SUBSET Items

\* the items and itemsets of the sequence side
SeqItems == {"a", "b"}
SeqItemsets == SUBSET SeqItems

\* is_subsequence: positions of the sequence and of the candidate
MaxSeqLen == 3
MaxCandidateLen == 3
\* sequence_support: itemsets in the whole corpus, candidates in the list,
\* positions of a candidate
MaxCorpusLen == 3
MaxSequences == 2
MaxSupportCandidateLen == 2

\* get_frequent_sequences_2: itemsets in the whole corpus, and min_support
\* (which the code compares with counts)
MaxMiningCorpusLen == 4
MaxMinSupport == 2

\* the itemset side: transactions in the corpus, itemsets in the list given to
\* support, the argument k, members of frequent_sub_itemsets
MaxTransactions == 2
MaxItemsetList == 2
MaxK == 3
MaxSubItemsets == 2

\* generate_candidate_sequences: sequences in the set, positions of a sequence
MaxLevelSequences == 3
MaxLevelLen == 2

\* is_prefix and get_suffix: positions of the record and of the pattern
MaxRecordLen == 3
MaxPatternLen == 3

SeqsUpTo(S, n) == UNION {[1..m -> S] : m \in 0..n}

\* flat cut into records after the positions in cuts: every sequence-corpus of
\* non-empty records is one flat sequence of itemsets and a set of cuts
RECURSIVE CutInto(_, _)
CutInto(flat, cuts) ==
    IF flat = <<>> THEN <<>>
    ELSE LET ends == {c \in cuts \cup {Len(flat)} : c >= 1}
             first == CHOOSE c \in ends : \A d \in ends : c <= d
         IN <<SubSeq(flat, 1, first)>> \o
            CutInto(SubSeq(flat, first + 1, Len(flat)), {c - first : c \in cuts})

SequenceCorpora(itemsets, n) ==
    {CutInto(flat, cuts) : <<flat, cuts>> \in
        UNION {[1..m -> itemsets] \X SUBSET (1..(m - 1)) : m \in 0..n}}

\* min_support arguments, as fractions <<numerator, denominator>>
MinSupports == {<<0 - 1, 2>>, <<0, 1>>, <<1, 3>>, <<1, 2>>, <<2, 3>>, <<1, 1>>, <<3, 2>>}

----------------------------------------------------------------------------
(* Python values. *)

Return(v) == [raised |-> "none", value |-> v]
Raise(e) == [raised |-> e]
Returned(r) == r.raised = "none"

Range(s) == {s[i] : i \in DOMAIN s}

\* exact fractions with a positive denominator
RatEq(x, y) == x[1] * y[2] = y[1] * x[2]
RatGeq(x, y) == x[1] * y[2] >= y[1] * x[2]
RatLeq(x, y) == RatGeq(y, x)
RatGt(x, y) == x[1] * y[2] > y[1] * x[2]
\* x / y for y > 0
RatDiv(x, y) == <<x[1] * y[2], x[2] * y[1]>>

\* The order in which a dict yields its keys: the order of first insertion.
RECURSIVE InsertionOrder(_)
InsertionOrder(s) ==
    IF s = <<>> THEN <<>>
    ELSE LET n == Len(s)
             front == InsertionOrder(SubSeq(s, 1, n - 1))
         IN IF \E j \in 1..(n - 1) : s[j] = s[n] THEN front ELSE Append(front, s[n])

\* The order in which a set yields its members when iterated. Python fixes no
\* order; the results the model states are indexed pairings, which hold for any.
RECURSIVE IterationOrder(_)
IterationOrder(S) ==
    IF S = {} THEN <<>>
    ELSE LET x == CHOOSE y \in S : TRUE
         IN <<x>> \o IterationOrder(S \ {x})

\* set.pop(): some member. Every call whose set has more than one member raises
\* at a later statement whichever member is popped.
Pop(S) == CHOOSE x \in S : TRUE

\* the optional argument frequent_sub_itemsets
None == [given |-> FALSE, members |-> {}]
Some(S) == [given |-> TRUE, members |-> S]
Truthy(f) == f.given /\ f.members # {}

----------------------------------------------------------------------------
(* support and confidence *)

\* counts[itemset] += 1 runs once for every (transaction, list entry) pair whose
\* entry is a subset of the transaction; count / total raises on an empty corpus.
support(trans, itemsets) ==
    LET keys == InsertionOrder(itemsets)
        total == Len(trans)
        counts == [A \in Range(itemsets) |->
                     Cardinality({p \in (1..Len(trans)) \X (1..Len(itemsets)) :
                                    /\ itemsets[p[2]] = A
                                    /\ itemsets[p[2]] \subseteq trans[p[1]]})]
    IN IF keys # <<>> /\ total = 0
       THEN Raise("ZeroDivisionError")
       ELSE Return([keys |-> keys, at |-> [A \in Range(itemsets) |-> <<counts[A], total>>]])

\* confidence with the support of itemset_b alone as numerator: what C9 rules out
confidence_of_b(trans, itemset_a, itemset_b) ==
    LET sa == support(trans, <<itemset_a>>)
    IN IF ~Returned(sa) THEN sa
       ELSE LET itemset_a_support == sa.value.at[itemset_a]
                sb == support(trans, <<itemset_b>>)
            IN IF itemset_a_support[1] = 0 THEN Return(<<0, 1>>)
               ELSE Return(RatDiv(sb.value.at[itemset_b], itemset_a_support))

confidence(trans, itemset_a, itemset_b) ==
    LET sa == support(trans, <<itemset_a>>)
    IN IF ~Returned(sa) THEN sa
       ELSE LET itemset_a_support == sa.value.at[itemset_a]
                itemset_a_union_b == itemset_a \cup itemset_b
                su == support(trans, <<itemset_a_union_b>>)
            IN IF itemset_a_support[1] = 0 THEN Return(<<0, 1>>)
               ELSE Return(RatDiv(su.value.at[itemset_a_union_b], itemset_a_support))

----------------------------------------------------------------------------
(* The state every specification starts a call from. *)

NoCall == [op |-> "none"]
NoResult == [raised |-> "nothing called"]

Idle ==
    /\ call = NoCall
    /\ ret = NoResult
    /\ pc = "idle"
    /\ k = 0
    /\ length_k_frequent_itemsets = <<>>
    /\ frequent_itemsets = <<>>
    /\ supports = <<>>
    /\ stack = <<>>

----------------------------------------------------------------------------
(* SpecSupport: support and confidence called on an itemset-corpus. *)

InitSupport ==
    /\ transactions \in SeqsUpTo(Itemsets, MaxTransactions)
    /\ Idle

Call_support ==
    /\ pc = "idle"
    /\ \E itemsets \in SeqsUpTo(Itemsets, MaxItemsetList) :
         /\ call' = [op |-> "support", itemsets |-> itemsets]
         /\ ret' = support(transactions, itemsets)
    /\ pc' = "returned"
    /\ UNCHANGED <<transactions, k, length_k_frequent_itemsets,
                   frequent_itemsets, supports, stack>>

Call_confidence ==
    /\ pc = "idle"
    /\ \E itemset_a \in Itemsets, itemset_b \in Itemsets :
         /\ call' = [op |-> "confidence", itemset_a |-> itemset_a, itemset_b |-> itemset_b]
         /\ ret' = confidence(transactions, itemset_a, itemset_b)
    /\ pc' = "returned"
    /\ UNCHANGED <<transactions, k, length_k_frequent_itemsets,
                   frequent_itemsets, supports, stack>>

NextSupport == Call_support \/ Call_confidence

SpecSupport == InitSupport /\ [][NextSupport]_vars

\* the number of transactions that contain itemset A as a subset
Containing(A) == Cardinality({t \in DOMAIN transactions : A \subseteq transactions[t]})

\* C5: on a non-empty corpus, support maps every itemset A of its list, named
\* once or several times, to (transactions containing A) / (transactions), a
\* value in [0,1] that is 1 for the empty itemset.
C5_SupportIsFractionOfTransactions ==
    (call.op = "support" /\ transactions # <<>>) =>
        /\ Returned(ret)
        /\ \A A \in Range(call.itemsets) :
             /\ RatEq(ret.value.at[A], <<Containing(A), Len(transactions)>>)
             /\ RatGeq(ret.value.at[A], <<0, 1>>)
             /\ RatLeq(ret.value.at[A], <<1, 1>>)
             /\ (A = {} => RatEq(ret.value.at[A], <<1, 1>>))

----------------------------------------------------------------------------
(* get_frequent_length_k_itemsets and get_frequent_itemsets *)

\* the validation with min_support < 0 for min_support <= 0: what C10 rules out
valid_arguments_from_zero(min_support, kk) ==
    /\ ~(RatGt(<<0, 1>>, min_support) \/ RatGt(min_support, <<1, 1>>))
    /\ ~(kk <= 0)

\* neither ValueError is raised
valid_arguments(min_support, kk) ==
    /\ ~(RatLeq(min_support, <<0, 1>>) \/ RatGt(min_support, <<1, 1>>))
    /\ ~(kk <= 0)

\* itemset_support >= min_support
is_frequent(itemset_support, min_support) == RatGeq(itemset_support, min_support)

\* all_items: the items of frequent_sub_itemsets when that is given and not
\* empty, else the items of the corpus
all_items(trans, frequent_sub_itemsets) ==
    IF Truthy(frequent_sub_itemsets)
    THEN UNION frequent_sub_itemsets.members
    ELSE UNION Range(trans)

\* itertools.product(all_items, repeat=k), each tuple made a frozenset, those of
\* k distinct items kept
all_length_k_itemsets(items, kk) ==
    {I \in {Range(t) : t \in [1..kk -> items]} : Cardinality(I) = kk}

\* pruning that keeps a candidate only when it contains every frequent
\* sub-itemset: what C1 rules out
pruned_by_all_sub_itemsets(candidates, frequent_sub_itemsets) ==
    IF Truthy(frequent_sub_itemsets)
    THEN {I \in candidates : \A sub_itemset \in frequent_sub_itemsets.members : sub_itemset \subseteq I}
    ELSE candidates

\* the candidates that contain at least one frequent sub-itemset
pruned_length_k_itemsets(candidates, frequent_sub_itemsets) ==
    IF Truthy(frequent_sub_itemsets)
    THEN {I \in candidates : \E sub_itemset \in frequent_sub_itemsets.members : sub_itemset \subseteq I}
    ELSE candidates

get_frequent_length_k_itemsets(trans, min_support, kk, frequent_sub_itemsets) ==
    IF ~valid_arguments(min_support, kk) THEN Raise("ValueError")
    ELSE LET candidates == pruned_length_k_itemsets(
                               all_length_k_itemsets(all_items(trans, frequent_sub_itemsets), kk),
                               frequent_sub_itemsets)
             sup == support(trans, IterationOrder(candidates))
         IN IF ~Returned(sup) THEN sup
            ELSE LET frequent == SelectSeq(sup.value.keys,
                                     LAMBDA I : is_frequent(sup.value.at[I], min_support))
                 IN Return([itemsets |-> frequent,
                            supports |-> [i \in 1..Len(frequent) |-> sup.value.at[frequent[i]]]])

----------------------------------------------------------------------------
(* SpecApriori: one call of get_frequent_length_k_itemsets, or one run of     *)
(* get_frequent_itemsets, on an itemset-corpus.                              *)

SubItemsetArguments ==
    {None} \cup {Some(F) : F \in {G \in SUBSET Itemsets : Cardinality(G) <= MaxSubItemsets}}

InitApriori ==
    /\ transactions \in SeqsUpTo(Itemsets, MaxTransactions)
    /\ Idle

Call_get_frequent_length_k_itemsets ==
    /\ pc = "idle"
    /\ \E min_support \in MinSupports, kk \in 0..MaxK, frequent_sub_itemsets \in SubItemsetArguments :
         /\ call' = [op |-> "get_frequent_length_k_itemsets", min_support |-> min_support,
                     k |-> kk, frequent_sub_itemsets |-> frequent_sub_itemsets]
         /\ ret' = get_frequent_length_k_itemsets(transactions, min_support, kk, frequent_sub_itemsets)
    /\ pc' = "returned"
    /\ UNCHANGED <<transactions, k, length_k_frequent_itemsets,
                   frequent_itemsets, supports, stack>>

\* lines 201-208: k = 1 and the first level
get_frequent_itemsets_first_level ==
    /\ pc = "idle"
    /\ \E min_support \in MinSupports :
         LET r == get_frequent_length_k_itemsets(transactions, min_support, 1, None)
         IN /\ call' = [op |-> "get_frequent_itemsets", min_support |-> min_support]
            /\ k' = 1
            /\ IF Returned(r)
               THEN /\ length_k_frequent_itemsets' = r.value.itemsets
                    /\ frequent_itemsets' = r.value.itemsets
                    /\ supports' = r.value.supports
                    /\ pc' = "while"
                    /\ UNCHANGED ret
               ELSE /\ ret' = r
                    /\ pc' = "returned"
                    /\ UNCHANGED <<length_k_frequent_itemsets, frequent_itemsets, supports>>
    /\ UNCHANGED <<transactions, stack>>

\* lines 209-218: one iteration of the while loop
get_frequent_itemsets_next_level ==
    /\ pc = "while"
    /\ Len(length_k_frequent_itemsets) > 0
    /\ LET r == get_frequent_length_k_itemsets(transactions, call.min_support, k + 1,
                                               Some(Range(length_k_frequent_itemsets)))
       IN /\ k' = k + 1
          /\ IF Returned(r)
             THEN /\ length_k_frequent_itemsets' = r.value.itemsets
                  /\ frequent_itemsets' = frequent_itemsets \o r.value.itemsets
                  /\ supports' = supports \o r.value.supports
                  /\ UNCHANGED <<pc, ret>>
             ELSE /\ ret' = r
                  /\ pc' = "returned"
                  /\ UNCHANGED <<length_k_frequent_itemsets, frequent_itemsets, supports>>
    /\ UNCHANGED <<transactions, call, stack>>

\* line 219
get_frequent_itemsets_return ==
    /\ pc = "while"
    /\ Len(length_k_frequent_itemsets) = 0
    /\ ret' = Return([itemsets |-> frequent_itemsets, supports |-> supports])
    /\ pc' = "returned"
    /\ UNCHANGED <<transactions, call, k, length_k_frequent_itemsets,
                   frequent_itemsets, supports, stack>>

NextApriori ==
    \/ Call_get_frequent_length_k_itemsets
    \/ get_frequent_itemsets_first_level
    \/ get_frequent_itemsets_next_level
    \/ get_frequent_itemsets_return

SpecApriori == InitApriori /\ [][NextApriori]_vars

\* min_support lies in (0, 1]
InRange(min_support) == RatGt(min_support, <<0, 1>>) /\ RatLeq(min_support, <<1, 1>>)

\* the non-empty itemsets whose support in the corpus is at least min_support
FrequentItemsets(min_support) ==
    {A \in Itemsets \ {{}} : RatGeq(<<Containing(A), Len(transactions)>>, min_support)}

\* C1: on a non-empty corpus and a min_support in (0,1], get_frequent_itemsets
\* returns exactly the non-empty itemsets whose support is >= min_support, each
\* once, with supports[i] the support of itemsets[i].
C1_AprioriReturnsExactlyTheFrequentItemsets ==
    (/\ call.op = "get_frequent_itemsets"
     /\ pc = "returned"
     /\ transactions # <<>>
     /\ InRange(call.min_support)) =>
        /\ Returned(ret)
        /\ Range(ret.value.itemsets) = FrequentItemsets(call.min_support)
        /\ Cardinality(Range(ret.value.itemsets)) = Len(ret.value.itemsets)
        /\ Len(ret.value.supports) = Len(ret.value.itemsets)
        /\ \A i \in DOMAIN ret.value.itemsets :
             RatEq(ret.value.supports[i],
                   <<Containing(ret.value.itemsets[i]), Len(transactions)>>)

\* C1 witness: a run that went through three non-empty levels and returned the
\* 3-itemset, on a corpus with a transaction that lacks an item.
C1_Witness ==
    /\ call.op = "get_frequent_itemsets"
    /\ pc = "returned"
    /\ Returned(ret)
    /\ k = 4
    /\ Items \in Range(ret.value.itemsets)
    /\ \E t \in DOMAIN transactions : transactions[t] # Items

\* C10: get_frequent_length_k_itemsets raises, and returns nothing, whenever
\* min_support <= 0, min_support > 1 or k < 1, whatever the corpus and
\* frequent_sub_itemsets; get_frequent_itemsets raises the same way for a
\* min_support out of range.
C10_InvalidArgumentsRaise ==
    /\ (/\ call.op = "get_frequent_length_k_itemsets"
        /\ (~InRange(call.min_support) \/ call.k < 1)) =>
            ret = Raise("ValueError")
    /\ (/\ call.op = "get_frequent_itemsets"
        /\ ~InRange(call.min_support)) =>
            (pc = "returned" /\ ret = Raise("ValueError"))

\* C10 witness: min_support = 0 is refused although the corpus and the
\* frequent sub-itemsets would yield candidates.
C10_Witness ==
    /\ call.op = "get_frequent_length_k_itemsets"
    /\ call.min_support = <<0, 1>>
    /\ call.k = 1
    /\ Truthy(call.frequent_sub_itemsets)
    /\ transactions # <<>>
    /\ ret = Raise("ValueError")

\* C12: when frequent_sub_itemsets is given to get_frequent_length_k_itemsets,
\* be it a set of no itemsets at all, every itemset returned has exactly k
\* items, holds only items of frequent_sub_itemsets and contains at least one
\* of its members.
C12_ReturnedItemsetsExtendFrequentSubItemsets ==
    (/\ call.op = "get_frequent_length_k_itemsets"
     /\ call.frequent_sub_itemsets.given
     /\ Returned(ret)) =>
        \A I \in Range(ret.value.itemsets) :
            /\ Cardinality(I) = call.k
            /\ I \subseteq UNION call.frequent_sub_itemsets.members
            /\ \E sub_itemset \in call.frequent_sub_itemsets.members : sub_itemset \subseteq I

\* The same when frequent_sub_itemsets holds at least one itemset.
C12_OnNonEmptyFrequentSubItemsets ==
    (call.op = "get_frequent_length_k_itemsets" /\ Truthy(call.frequent_sub_itemsets))
        => C12_ReturnedItemsetsExtendFrequentSubItemsets

----------------------------------------------------------------------------
(* sequence_len, is_subsequence and sequence_support *)

RECURSIVE sequence_len(_)
sequence_len(sequence) ==
    IF sequence = <<>> THEN 0
    ELSE Cardinality(sequence[1]) + sequence_len(Tail(sequence))

\* lines 45-49: a candidate of one item in all
is_subsequence_1(sequence, candidate) ==
    IF candidate[1] = {} THEN Raise("KeyError")
    ELSE LET item == Pop(candidate[1])
         IN Return(\E i \in DOMAIN sequence : item \in sequence[i])

\* lines 50-57: a candidate of two items in all
is_subsequence_2(sequence, candidate) ==
    IF candidate[1] = {} THEN Raise("KeyError")
    ELSE IF Len(candidate) < 2 THEN Raise("IndexError")
    ELSE IF candidate[2] = {} THEN Raise("KeyError")
    ELSE LET item_1 == Pop(candidate[1])
             item_2 == Pop(candidate[2])
         IN Return(\E i \in DOMAIN sequence :
                      /\ item_1 \in sequence[i]
                      /\ i + 1 <= Len(sequence)
                      /\ item_2 \in sequence[i + 1])

\* lines 58-72: every other candidate. candidate[0] is read only inside the
\* loop over the sequence.
is_subsequence_general(sequence, candidate) ==
    IF sequence = <<>> THEN Return(FALSE)
    ELSE IF candidate = <<>> THEN Raise("IndexError")
    ELSE Return(\E i \in DOMAIN sequence :
                   /\ candidate[1] \subseteq sequence[i]
                   /\ ~(Len(candidate) - 1 > Len(sequence) - i)
                   /\ \A j \in 1..(Len(candidate) - 1) :
                        candidate[j + 1] \subseteq sequence[i + j])

is_subsequence(sequence, candidate) ==
    IF sequence_len(candidate) = 1 THEN is_subsequence_1(sequence, candidate)
    ELSE IF sequence_len(candidate) = 2 THEN is_subsequence_2(sequence, candidate)
    ELSE is_subsequence_general(sequence, candidate)

\* what one (transaction, list entry) pair adds to the entry's count
matches(transaction, sequence) ==
    IF is_subsequence(transaction, sequence).value THEN 1 ELSE 0

RECURSIVE Sum(_, _)
Sum(f, S) ==
    IF S = {} THEN 0
    ELSE LET x == CHOOSE y \in S : TRUE IN f[x] + Sum(f, S \ {x})

\* The loops call is_subsequence on (transaction, list entry) pairs, transactions
\* outermost; the first call that raises ends sequence_support. Otherwise the
\* counts are returned as they are: nothing divides them.
sequence_support(trans, sequences) ==
    LET pairs == (1..Len(trans)) \X (1..Len(sequences))
        raising == {p \in pairs : ~Returned(is_subsequence(trans[p[1]], sequences[p[2]]))}
        before(p, q) == p[1] < q[1] \/ (p[1] = q[1] /\ p[2] <= q[2])
    IN IF raising # {}
       THEN LET p == CHOOSE q \in raising : \A r \in raising : before(q, r)
            IN is_subsequence(trans[p[1]], sequences[p[2]])
       ELSE LET added == [p \in pairs |-> matches(trans[p[1]], sequences[p[2]])]
            IN Return([keys |-> InsertionOrder(sequences),
                       at |-> [c \in Range(sequences) |->
                                 Sum(added, {p \in pairs : sequences[p[2]] = c})]])

----------------------------------------------------------------------------
(* SpecMatch: is_subsequence called on one sequence and one candidate. *)

InitMatch ==
    /\ transactions \in {<<sequence>> : sequence \in SeqsUpTo(SeqItemsets, MaxSeqLen)}
    /\ Idle

Call_is_subsequence ==
    /\ pc = "idle"
    /\ \E candidate \in SeqsUpTo(SeqItemsets, MaxCandidateLen) :
         /\ call' = [op |-> "is_subsequence", sequence |-> transactions[1],
                     candidate |-> candidate]
         /\ ret' = is_subsequence(transactions[1], candidate)
    /\ pc' = "returned"
    /\ UNCHANGED <<transactions, k, length_k_frequent_itemsets,
                   frequent_itemsets, supports, stack>>

NextMatch == Call_is_subsequence

SpecMatch == InitMatch /\ [][NextMatch]_vars

----------------------------------------------------------------------------
(* SpecSequenceSupport: sequence_support called on a sequence-corpus. *)

InitSequenceSupport ==
    /\ transactions \in SequenceCorpora(SeqItemsets, MaxCorpusLen)
    /\ Idle

Call_sequence_support ==
    /\ pc = "idle"
    /\ \E sequences \in SeqsUpTo(SeqsUpTo(SeqItemsets, MaxSupportCandidateLen), MaxSequences) :
         /\ call' = [op |-> "sequence_support", sequences |-> sequences]
         /\ ret' = sequence_support(transactions, sequences)
    /\ pc' = "returned"
    /\ UNCHANGED <<transactions, k, length_k_frequent_itemsets,
                   frequent_itemsets, supports, stack>>

NextSequenceSupport == Call_sequence_support

SpecSequenceSupport == InitSequenceSupport /\ [][NextSequenceSupport]_vars

----------------------------------------------------------------------------
(* The claims about is_subsequence, under SpecMatch. *)

\* candidate lies in sequence at some anchor, element by element, in lock-step
Anchored(sequence, candidate) ==
    \E i \in 0..(Len(sequence) - Len(candidate)) :
        \A j \in 1..Len(candidate) : candidate[j] \subseteq sequence[i + j]

\* C3: for a non-empty candidate of itemsets of any sizes, is_subsequence
\* returns a boolean, and returns true exactly when the candidate lies in the
\* sequence at some anchor i with i + len(candidate) <= len(sequence).
C3_IsSubsequenceIsAnchoredMatch ==
    (call.op = "is_subsequence" /\ call.candidate # <<>>) =>
        /\ Returned(ret)
        /\ ret.value = Anchored(call.sequence, call.candidate)

\* C6: when is_subsequence(sequence, candidate) is true, it is still true after
\* any element of the candidate but the first is replaced by the empty itemset.
C6_EmptyItemsetMatchesAnyTailPosition ==
    (call.op = "is_subsequence" /\ Returned(ret) /\ ret.value) =>
        \A p \in 2..Len(call.candidate) :
            LET r == is_subsequence(call.sequence, [call.candidate EXCEPT ![p] = {}])
            IN Returned(r) /\ r.value

\* C7: is_subsequence returns false for every candidate that has more
\* positions than the sequence, empty-itemset placeholders included. Stated for
\* the calls that return, so that a raised error does not decide it.
C7_LongerCandidateNeverMatches ==
    (/\ call.op = "is_subsequence"
     /\ Len(call.candidate) > Len(call.sequence)
     /\ Returned(ret)) =>
        ret.value = FALSE

----------------------------------------------------------------------------
(* The claims about sequence_support, under SpecSequenceSupport. *)

\* the number of records that is_subsequence finds to contain the candidate
Matching(candidate) ==
    Cardinality({t \in DOMAIN transactions :
                   LET r == is_subsequence(transactions[t], candidate)
                   IN Returned(r) /\ r.value})

\* the list names no candidate twice and is_subsequence returns on each of them
PlainCandidates(sequences) ==
    /\ Cardinality(Range(sequences)) = Len(sequences)
    /\ \A c \in Range(sequences) : \A t \in DOMAIN transactions :
          Returned(is_subsequence(transactions[t], c))

\* C4: on a non-empty corpus, the value sequence_support returns for a candidate
\* is (records containing the candidate) / (records), a fraction in [0,1].
\* Stated for the lists of distinct candidates on which is_subsequence returns,
\* so that neither a raised error nor a repeated candidate decides it.
C4_SequenceSupportIsFractionOfRecords ==
    (/\ call.op = "sequence_support"
     /\ transactions # <<>>
     /\ PlainCandidates(call.sequences)) =>
        /\ Returned(ret)
        /\ \A candidate \in Range(call.sequences) :
             /\ RatEq(<<ret.value.at[candidate], 1>>,
                      <<Matching(candidate), Len(transactions)>>)
             /\ RatGeq(<<ret.value.at[candidate], 1>>, <<0, 1>>)
             /\ RatLeq(<<ret.value.at[candidate], 1>>, <<1, 1>>)

\* C8: whatever the list of candidates, a record adds at most 1 to the count of
\* a candidate, so no count exceeds the number of records.
C8_RecordCountsAtMostOnce ==
    (call.op = "sequence_support" /\ Returned(ret)) =>
        \A candidate \in Range(call.sequences) :
            ret.value.at[candidate] <= Len(transactions)

\* C11: on a corpus of zero records, support and sequence_support end in an
\* error and return no mapping, whatever the list of candidates, the empty
\* list included.
C11_EmptyCorpusRaises ==
    (call.op \in {"support", "sequence_support"} /\ transactions = <<>>) =>
        ~Returned(ret)

\* The same for support alone, under SpecSupport: only the empty list returns.
C11_SupportOnEmptyCorpusRaises ==
    (call.op = "support" /\ transactions = <<>>) => ~Returned(ret)

----------------------------------------------------------------------------
(* generate_candidate_sequences *)

\* line 251 raises StopIteration on an empty set; lines 252-254 raise when two
\* members differ in sequence_len; lines 255-259 join every member with every
\* other member. Nothing follows: lines 260-266 are commented out.
generate_candidate_sequences(length_k_sequences) ==
    IF length_k_sequences = {} THEN Raise("StopIteration")
    ELSE LET example_len == sequence_len(Pop(length_k_sequences))
         IN IF \E length_k_sequence \in length_k_sequences :
                  sequence_len(length_k_sequence) # example_len
            THEN Raise("ValueError")
            ELSE Return({sequence \o sequence_to_join_with :
                           <<sequence, sequence_to_join_with>> \in
                               {q \in length_k_sequences \X length_k_sequences : q[2] # q[1]}})

(* SpecCandidates: generate_candidate_sequences called on a set of sequences. *)

\* the sets of at most MaxLevelSequences sequences of at most MaxLevelLen positions
LevelSequences ==
    UNION {{Range(f) : f \in [1..n -> SeqsUpTo(SeqItemsets, MaxLevelLen)]} :
              n \in 0..MaxLevelSequences}

InitCandidates ==
    /\ transactions = <<>>
    /\ Idle

Call_generate_candidate_sequences ==
    /\ pc = "idle"
    /\ \E length_k_sequences \in LevelSequences :
         /\ call' = [op |-> "generate_candidate_sequences",
                     length_k_sequences |-> length_k_sequences]
         /\ ret' = generate_candidate_sequences(length_k_sequences)
    /\ pc' = "returned"
    /\ UNCHANGED <<transactions, k, length_k_frequent_itemsets,
                   frequent_itemsets, supports, stack>>

NextCandidates == Call_generate_candidate_sequences

SpecCandidates == InitCandidates /\ [][NextCandidates]_vars

\* the members of the set hold as many items in all as one another
EqualItemCount(S) == \A s \in S : \A t \in S : sequence_len(s) = sequence_len(t)

\* C13: for a set of sequences of equal item count, the result holds s + t for
\* every ordered pair of distinct members s, t; and when the item count is 1 it
\* also holds the one-position candidate ({a, b},) for every two distinct items
\* a, b of two members.
C13_CandidatesAreJoinsAndMerges ==
    (/\ call.op = "generate_candidate_sequences"
     /\ call.length_k_sequences # {}
     /\ EqualItemCount(call.length_k_sequences)) =>
        /\ Returned(ret)
        /\ \A s \in call.length_k_sequences : \A t \in call.length_k_sequences \ {s} :
             /\ s \o t \in ret.value
             /\ (sequence_len(s) = 1) =>
                   \A a \in UNION Range(s) : \A b \in UNION Range(t) :
                       a # b => <<{a, b}>> \in ret.value

\* What the code returns on such a set: the joins and nothing else.
C13_CandidatesAreTheJoins ==
    (/\ call.op = "generate_candidate_sequences"
     /\ call.length_k_sequences # {}
     /\ EqualItemCount(call.length_k_sequences)) =>
        /\ Returned(ret)
        /\ ret.value = {s \o t : <<s, t>> \in
                          {q \in call.length_k_sequences \X call.length_k_sequences : q[1] # q[2]}}

----------------------------------------------------------------------------
(* get_frequent_length_k_sequences *)

\* the literal 0.2 of line 303
literal_threshold == <<1, 5>>

\* lines 292-306: one candidate ({item},) per item of the corpus, scored by
\* sequence_support and kept when its score is >= 0.2. The arguments
\* min_support, k and frequent_sub_sequences are never read.
get_frequent_length_k_sequences(trans, min_support) ==
    LET items == UNION {UNION Range(trans[t]) : t \in DOMAIN trans}
        order == IterationOrder(items)
        sequences == [x \in DOMAIN order |-> <<{order[x]}>>]
        sup == sequence_support(trans, sequences)
    IN IF ~Returned(sup) THEN sup
       ELSE LET frequent == SelectSeq(sup.value.keys,
                                LAMBDA c : RatGeq(<<sup.value.at[c], 1>>, literal_threshold))
            IN Return([sequences |-> frequent,
                       supports |-> [x \in DOMAIN frequent |-> sup.value.at[frequent[x]]]])

(* SpecLengthK: get_frequent_length_k_sequences called on a sequence-corpus. *)

InitLengthK ==
    /\ transactions \in SequenceCorpora(SeqItemsets, MaxCorpusLen)
    /\ Idle

Call_get_frequent_length_k_sequences ==
    /\ pc = "idle"
    /\ \E min_support \in MinSupports :
         /\ call' = [op |-> "get_frequent_length_k_sequences", min_support |-> min_support]
         /\ ret' = get_frequent_length_k_sequences(transactions, min_support)
    /\ pc' = "returned"
    /\ UNCHANGED <<transactions, k, length_k_frequent_itemsets,
                   frequent_itemsets, supports, stack>>

NextLengthK == Call_get_frequent_length_k_sequences

SpecLengthK == InitLengthK /\ [][NextLengthK]_vars

\* the items of the corpus, and the number of records that hold item x
CorpusItems == UNION {UNION Range(transactions[t]) : t \in DOMAIN transactions}
RecordsWith(x) ==
    Cardinality({t \in DOMAIN transactions : \E i \in DOMAIN transactions[t] : x \in transactions[t][i]})

\* C15: on a non-empty corpus, get_frequent_length_k_sequences returns exactly
\* the sequences ({x},) whose support, (records holding x) / (records), is
\* >= the min_support argument, and supports[i] is the support of sequences[i].
\* Stated for min_support in (0,1], so that no out-of-range argument decides it.
C15_FrequentLength1SequencesMeetMinSupport ==
    (/\ call.op = "get_frequent_length_k_sequences"
     /\ transactions # <<>>
     /\ InRange(call.min_support)) =>
        /\ Returned(ret)
        /\ Range(ret.value.sequences) =
              {<<{x}>> : x \in {y \in CorpusItems :
                  RatGeq(<<RecordsWith(y), Len(transactions)>>, call.min_support)}}
        /\ Len(ret.value.supports) = Len(ret.value.sequences)
        /\ \A i \in DOMAIN ret.value.sequences :
             \A x \in ret.value.sequences[i][1] :
                RatEq(<<ret.value.supports[i], 1>>, <<RecordsWith(x), Len(transactions)>>)

\* What the code returns: every item of the corpus, each with the number of
\* records that hold it, whatever min_support is.
C15_EveryItemWithItsCount ==
    (call.op = "get_frequent_length_k_sequences") =>
        /\ Returned(ret)
        /\ Range(ret.value.sequences) = {<<{x}>> : x \in CorpusItems}
        /\ Len(ret.value.supports) = Len(ret.value.sequences)
        /\ \A i \in DOMAIN ret.value.sequences :
             \A x \in ret.value.sequences[i][1] : ret.value.supports[i] = RecordsWith(x)

----------------------------------------------------------------------------
(* is_prefix, get_suffix, get_projected_transactions *)

\* s[i] for a Python index i, which may be negative
InIndexRange(s, i) == 0 - Len(s) <= i /\ i < Len(s)
At(s, i) == IF i >= 0 THEN s[i + 1] ELSE s[Len(s) + i + 1]

\* Returns [result |-> TRUE, m |-> m] for (True, m) and [result |-> FALSE] for
\* (False, None). n and m count items, and index itemsets.
is_prefix(alpha, beta) ==
    LET n == sequence_len(alpha) - 1
        m == sequence_len(beta) - 1
        stops == {i \in 0..(m - 1) :
                    \/ ~InIndexRange(beta, i)
                    \/ ~InIndexRange(alpha, i)
                    \/ At(beta, i) # At(alpha, i)}
    IN IF m > n THEN Return([result |-> FALSE])
       ELSE IF stops # {}
       THEN LET i == CHOOSE x \in stops : \A y \in stops : x <= y
            IN IF ~InIndexRange(beta, i) \/ ~InIndexRange(alpha, i)
               THEN Raise("IndexError")
               ELSE Return([result |-> FALSE])
       ELSE IF ~InIndexRange(beta, m) \/ ~InIndexRange(alpha, m) THEN Raise("IndexError")
       ELSE IF ~(At(beta, m) \subseteq At(alpha, m)) THEN Return([result |-> FALSE])
       ELSE Return([result |-> TRUE, m |-> m])

\* get_suffix with gamma = alpha[m:], which keeps the matched itemset: what
\* C14 rules out
get_suffix_from_match(alpha, beta) ==
    LET p == is_prefix(alpha, beta)
    IN IF ~Returned(p) THEN p
       ELSE IF ~p.value.result THEN Return([found |-> FALSE])
       ELSE Return([found |-> TRUE, gamma |-> SubSeq(alpha, p.value.m + 1, Len(alpha))])

\* Returns [found |-> TRUE, gamma |-> alpha[(m + 1):]], or [found |-> FALSE] for None.
get_suffix(alpha, beta) ==
    LET p == is_prefix(alpha, beta)
    IN IF ~Returned(p) THEN p
       ELSE IF ~p.value.result THEN Return([found |-> FALSE])
       ELSE Return([found |-> TRUE, gamma |-> SubSeq(alpha, p.value.m + 2, Len(alpha))])

\* lines 371-377 for one transaction: the first position i at which is_prefix
\* raises, or at which it matches and leaves a suffix that holds an item
projection_of(transaction, prefix) ==
    LET from(i) == SubSeq(transaction, i, Len(transaction))
        stops == {i \in DOMAIN transaction :
                    LET p == is_prefix(from(i), prefix)
                    IN \/ ~Returned(p)
                       \/ /\ p.value.result
                          /\ sequence_len(get_suffix(from(i), prefix).value.gamma) > 0}
    IN IF stops = {} THEN Return([found |-> FALSE])
       ELSE LET i == CHOOSE x \in stops : \A y \in stops : x <= y
            IN get_suffix(from(i), prefix)

get_projected_transactions(trans, prefix) ==
    LET raising == {t \in DOMAIN trans : ~Returned(projection_of(trans[t], prefix))}
        kept == SelectSeq(trans, LAMBDA transaction : projection_of(transaction, prefix).value.found)
    IN IF raising # {}
       THEN projection_of(trans[CHOOSE t \in raising : \A u \in raising : t <= u], prefix)
       ELSE Return([t \in DOMAIN kept |-> projection_of(kept[t], prefix).value.gamma])

----------------------------------------------------------------------------
(* SpecPrefix: is_prefix or get_suffix called on one record and one pattern. *)

InitPrefix ==
    /\ transactions \in {<<record>> : record \in SeqsUpTo(SeqItemsets, MaxRecordLen)}
    /\ Idle

Call_is_prefix ==
    /\ pc = "idle"
    /\ \E beta \in SeqsUpTo(SeqItemsets, MaxPatternLen) :
         /\ call' = [op |-> "is_prefix", alpha |-> transactions[1], beta |-> beta]
         /\ ret' = is_prefix(transactions[1], beta)
    /\ pc' = "returned"
    /\ UNCHANGED <<transactions, k, length_k_frequent_itemsets,
                   frequent_itemsets, supports, stack>>

Call_get_suffix ==
    /\ pc = "idle"
    /\ \E beta \in SeqsUpTo(SeqItemsets, MaxPatternLen) :
         /\ call' = [op |-> "get_suffix", alpha |-> transactions[1], beta |-> beta]
         /\ ret' = get_suffix(transactions[1], beta)
    /\ pc' = "returned"
    /\ UNCHANGED <<transactions, k, length_k_frequent_itemsets,
                   frequent_itemsets, supports, stack>>

NextPrefix == Call_is_prefix \/ Call_get_suffix

SpecPrefix == InitPrefix /\ [][NextPrefix]_vars

\* e is no longer than record, its elements before the last are those of record
\* at the same positions, and its last element is a subset of record's there
PrefixMatch(record, e) ==
    /\ Len(e) <= Len(record)
    /\ \A i \in 1..(Len(e) - 1) : e[i] = record[i]
    /\ e[Len(e)] \subseteq record[Len(e)]

\* no itemset of the sequence is empty
Inhabited(sequence) == \A i \in DOMAIN sequence : sequence[i] # {}

\* C16: for a non-empty pattern e of itemsets of any sizes, is_prefix(record, e)
\* raises no error and reports a match exactly when e is a prefix of record in
\* the sense of PrefixMatch; on a match get_suffix(record, e) returns the
\* itemsets of record after position len(e). Stated for records and patterns
\* whose itemsets each hold an item, so that no empty itemset decides it.
C16_IsPrefixIsPositionalMatch ==
    /\ (call.op = "is_prefix" /\ call.beta # <<>> /\ Inhabited(call.alpha \o call.beta)) =>
          /\ Returned(ret)
          /\ ret.value.result = PrefixMatch(call.alpha, call.beta)
    /\ (/\ call.op = "get_suffix"
        /\ call.beta # <<>>
        /\ Inhabited(call.alpha \o call.beta)
        /\ PrefixMatch(call.alpha, call.beta)) =>
          /\ Returned(ret)
          /\ ret.value.found
          /\ ret.value.gamma = SubSeq(call.alpha, Len(call.beta) + 1, Len(call.alpha))

\* The same when every itemset of the record and of the pattern holds one item.
C16_OnSingleItemSequences ==
    (/\ call.op \in {"is_prefix", "get_suffix"}
     /\ \A i \in DOMAIN call.alpha : Cardinality(call.alpha[i]) = 1
     /\ \A i \in DOMAIN call.beta : Cardinality(call.beta[i]) = 1)
        => C16_IsPrefixIsPositionalMatch

----------------------------------------------------------------------------
(* get_frequent_sequences_2 *)

\* lines 382-399: the frame of a call up to its loop over frequent_sequences;
\* i is the position of that loop
Frame(trans, min_support, prefix) ==
    LET transactions_with_prefix == [t \in DOMAIN trans |-> prefix \o trans[t]]
        items == UNION {UNION Range(trans[t]) : t \in DOMAIN trans}
        order == IterationOrder(items)
        sequences_with_prefix == [x \in DOMAIN order |-> prefix \o <<{order[x]}>>]
        sup == sequence_support(transactions_with_prefix, sequences_with_prefix)
    IN IF ~Returned(sup) THEN sup
       ELSE LET frequent == SelectSeq(sup.value.keys, LAMBDA c : sup.value.at[c] >= min_support)
            IN Return([prefix |-> prefix,
                       transactions |-> trans,
                       transactions_with_prefix |-> transactions_with_prefix,
                       frequent_sequences |-> frequent,
                       frequent_supports |-> [x \in DOMAIN frequent |-> sup.value.at[frequent[x]]],
                       i |-> 1])

----------------------------------------------------------------------------
(* SpecMining: one run of get_frequent_sequences_2 on a sequence-corpus.     *)

InitMining ==
    /\ transactions \in SequenceCorpora(SeqItemsets \ {{}}, MaxMiningCorpusLen) \ {<<>>}
    /\ Idle

\* the call made by the driver, with the default prefix
Call_get_frequent_sequences_2 ==
    /\ pc = "idle"
    /\ \E min_support \in 0..MaxMinSupport :
         \E f \in {Frame(transactions, min_support, <<>>)} :
            /\ call' = [op |-> "get_frequent_sequences_2", min_support |-> min_support]
            /\ IF Returned(f)
               THEN stack' = <<f.value>> /\ pc' = "for" /\ UNCHANGED ret
               ELSE ret' = f /\ pc' = "returned" /\ UNCHANGED stack
    /\ UNCHANGED <<transactions, k, length_k_frequent_itemsets, frequent_itemsets, supports>>

\* the call of line 403 on the outcome of line 401
recursive_call(projected_database, min_support, frequent_sequence) ==
    IF Returned(projected_database)
    THEN Frame(projected_database.value, min_support, frequent_sequence)
    ELSE projected_database

\* lines 400-403: the loop reaches frequent_sequences[i], projects on it and
\* calls get_frequent_sequences_2 on the projection. The loop runs over the
\* list that line 404 extends, so it reaches the appended sequences too.
get_frequent_sequences_2_recurse ==
    /\ pc = "for"
    /\ \E top \in {stack[Len(stack)]} :
         /\ top.i <= Len(top.frequent_sequences)
         /\ \E frequent_sequence \in {top.frequent_sequences[top.i]} :
            \E projected_database \in
                  {get_projected_transactions(top.transactions_with_prefix, frequent_sequence)} :
            \E f \in {recursive_call(projected_database, call.min_support, frequent_sequence)} :
               IF Returned(f)
               THEN stack' = Append(stack, f.value) /\ UNCHANGED <<pc, ret>>
               ELSE ret' = f /\ pc' = "returned" /\ UNCHANGED stack
    /\ UNCHANGED <<transactions, call, k, length_k_frequent_itemsets, frequent_itemsets, supports>>

\* lines 404-406: the loop of the top call is over; it returns its lists, which
\* the caller appends to its own before its loop goes on
get_frequent_sequences_2_return ==
    /\ pc = "for"
    /\ LET top == stack[Len(stack)]
           below == Len(stack) - 1
       IN /\ top.i > Len(top.frequent_sequences)
          /\ IF below = 0
             THEN /\ ret' = Return([sequences |-> top.frequent_sequences,
                                    supports |-> top.frequent_supports])
                  /\ pc' = "returned"
                  /\ stack' = <<>>
             ELSE /\ stack' = [SubSeq(stack, 1, below) EXCEPT ![below] =
                        [@ EXCEPT !.frequent_sequences = @ \o top.frequent_sequences,
                                  !.frequent_supports = @ \o top.frequent_supports,
                                  !.i = @ + 1]]
                  /\ UNCHANGED <<pc, ret>>
    /\ UNCHANGED <<transactions, call, k, length_k_frequent_itemsets, frequent_itemsets, supports>>

NextMining ==
    \/ Call_get_frequent_sequences_2
    \/ get_frequent_sequences_2_recurse
    \/ get_frequent_sequences_2_return

SpecMining == InitMining /\ [][NextMining]_vars

\* the number of records of a corpus that is_subsequence finds to contain a candidate
CountIn(corpus, candidate) ==
    Cardinality({t \in DOMAIN corpus :
                   LET r == is_subsequence(corpus[t], candidate)
                   IN Returned(r) /\ r.value})

\* the calls in progress whose prefix is a frequent sequence of the corpus
FrequentPrefixFrames ==
    {d \in DOMAIN stack :
        /\ stack[d].prefix # <<>>
        /\ call.min_support >= 1
        /\ CountIn(transactions, stack[d].prefix) >= call.min_support}

\* C2: for every frequent prefix the recursion reaches and every item x, as many
\* records of the projected, prefix-augmented corpus contain prefix ++ [{x}] as
\* records of the original corpus do.
C2_ProjectedSupportEqualsDirectSupport ==
    \A d \in FrequentPrefixFrames : \A x \in SeqItems :
        CountIn(stack[d].transactions_with_prefix, stack[d].prefix \o <<{x}>>)
            = CountIn(transactions, stack[d].prefix \o <<{x}>>)

\* The same on the corpora the driver builds, whose itemsets hold one item each.
C2_OnSingleItemCorpora ==
    (\A t \in DOMAIN transactions : \A i \in DOMAIN transactions[t] :
        Cardinality(transactions[t][i]) = 1)
    => C2_ProjectedSupportEqualsDirectSupport

----------------------------------------------------------------------------
(* SpecMiningFair: SpecMining run by an interpreter that does not stop.       *)

\* A Python call that can take a step takes it: weak fairness of NextMining,
\*     []<>(~ENABLED <<NextMining>>_vars) \/ []<><<NextMining>>_vars,
\* with ENABLED <<NextMining>>_vars written as pc # "returned". The two agree
\* in every reachable state: the guards of the actions of pc = "idle" and of
\* pc = "for" leave no state out, and every step changes pc or stack.
SpecMiningFair ==
    SpecMining /\ ([]<>(pc = "returned") \/ []<><<NextMining>>_vars)

\* the positions, in a corpus, of the records that the projection on prefix keeps
kept_records(trans, prefix) ==
    SelectSeq([t \in DOMAIN trans |-> t],
              LAMBDA t : projection_of(trans[t], prefix).value.found)

\* A step that makes the recursive call of line 403: the projected corpus has
\* no more records than the corpus of the calling level, and each of its
\* records is strictly shorter than the record it comes from.
ProjectionShrinks ==
    (Len(stack) >= 1 /\ Len(stack') = Len(stack) + 1) =>
        LET top == stack[Len(stack)]
            projected == stack'[Len(stack')].transactions
            from == kept_records(top.transactions_with_prefix, stack'[Len(stack')].prefix)
        IN /\ Len(projected) <= Len(top.transactions)
           /\ Len(from) = Len(projected)
           /\ \A t \in DOMAIN projected :
                Len(projected[t]) < Len(top.transactions[from[t]])

\* C14: get_frequent_sequences_2 terminates on every corpus and min_support:
\* every recursive call is made on a corpus of no more records, each strictly
\* shorter than the record it was projected from, and the outermost call ends.
C14_RecursionTerminates ==
    [][ProjectionShrinks]_vars /\ <>(pc = "returned")

\* C14 witness: a run that returned after recursing three levels deep, having
\* found a frequent sequence of three positions.
C14_Witness ==
    /\ call.op = "get_frequent_sequences_2"
    /\ pc = "returned"
    /\ Returned(ret)
    /\ \E x \in DOMAIN ret.value.sequences : Len(ret.value.sequences[x]) = 3

\* C17: the list of patterns that get_frequent_sequences_2 returns holds no
\* pattern twice.
C17_NoPatternTwice ==
    (call.op = "get_frequent_sequences_2" /\ pc = "returned" /\ Returned(ret)) =>
        \A x \in DOMAIN ret.value.sequences : \A y \in DOMAIN ret.value.sequences :
            ret.value.sequences[x] = ret.value.sequences[y] => x = y

\* The reason C17 gives: a level recurses only into its own frequent extensions,
\* prefix ++ [{x}], never into a pattern that a recursive call returned to it.
C17_RecursesOnlyIntoOwnExtensions ==
    \A d \in 2..Len(stack) : Len(stack[d].prefix) = Len(stack[d - 1].prefix) + 1

====
